---- MODULE Spec2Model ----
(***************************************************************************)
(* Model of the YOLO object-detection demo application.                    *)
(*                                                                         *)
(* Four pipelines of the repository are modelled.                          *)
(*   - The application session of app.py: the script is rerun on every     *)
(*     interaction, builds a fresh YOLOApp (and YOLOModelManager) each     *)
(*     time and keeps its results in st.session_state.  Specification:     *)
(*     Spec.                                                               *)
(*   - The detection processor of yolo_model_manager.py and the result     *)
(*     displays of ui_components.py, which are functions of the raw model  *)
(*     output.  Specification: SpecProc, whose initial states draw the raw *)
(*     model output and whose actions apply the functions.                 *)
(*   - The renderer of yolo_model_manager.py (create_visualization) and a  *)
(*     second run_inference on the same model output.  Specification:      *)
(*     SpecVis, with the initial states of SpecProc.                       *)
(*   - The font installer script install_japanese_fonts.py, run once on a  *)
(*     platform drawn in the initial state.  Specification: SpecFonts.     *)
(* The image input section of ui_components.py (the remote loaders) is a   *)
(* step of Spec: it can be shown in any state of a session.                *)
(*                                                                         *)
(* Conventions.  An optional value is a sequence of length at most one:    *)
(* None is <<>> and Some(v) is <<v>>.  A confidence is an integer number   *)
(* of thousandths (900 is 0.9, 1200 is 1.2).  A user-visible message is a  *)
(* record [level, key, name, num]: the Streamlit call that showed it, the  *)
(* message it shows, and the text and number interpolated into it.         *)
(***************************************************************************)
EXTENDS Integers, Sequences, FiniteSets, TLC

VARIABLES
    \* ---- st.session_state of one browser session (app.py) ----
    detection_results,     \* session_state.detection_results
    uploaded_image,        \* session_state.uploaded_image
    model_loaded,          \* session_state.model_loaded
    confidence_threshold,  \* session_state.confidence_threshold
    nms_threshold,         \* session_state.nms_threshold
    \* ---- process-wide state ----
    cache_resource,        \* st.cache_resource entry of YOLOModelLoader.load_model
    \* ---- what the latest script run did and showed ----
    run,
    \* ---- detection processor pipeline (inputs and function results) ----
    raw,                   \* what the model call yields
    debug_mode,            \* the debug_mode argument
    elapsed,               \* milliseconds measured around the model call
    ri,                    \* outcome of YOLODetectionProcessor.run_inference
    rm,                    \* outcome of ResultsManager.display_detection_results
    di,                    \* outcome of YOLODebugInfo.display_detection_stats
    det,                   \* outcome of YOLOModelManager.detect_objects
    stt,                   \* outcome of YOLOApp._display_detection_statistics
    \* ---- image input and rendering (inputs and function results) ----
    fetch,                 \* outcome of InputManager.create_image_input_section
    ri2,                   \* outcome of a second run_inference on the same output
    vis,                   \* outcome of YOLODetectionProcessor.create_visualization
    \* ---- the font installer script (install_japanese_fonts.py) ----
    font_env,              \* the platform and what its commands and checks do
    font_run               \* outcome of the script's main()

sessVars == <<detection_results, uploaded_image, model_loaded,
              confidence_threshold, nms_threshold, cache_resource, run>>
procVars == <<raw, debug_mode, elapsed, ri, rm, di, det, stt>>
ioVars == <<fetch, ri2, vis>>
fontVars == <<font_env, font_run>>
vars == <<detection_results, uploaded_image, model_loaded,
          confidence_threshold, nms_threshold, cache_resource, run,
          raw, debug_mode, elapsed, ri, rm, di, det, stt,
          fetch, ri2, vis, font_env, font_run>>

-----------------------------------------------------------------------------
(* Bounds of the model *)

\* longest list of predictions the model emits for one image (processor pipeline)
MaxPreds == 2
\* longest list of predictions the model emits for one image (application session)
MaxRunPreds == 2
\* number of predictions of the one crowded image of the processor pipeline
LongLen == 12

-----------------------------------------------------------------------------
(* Optional values and messages *)

None == <<>>
Some(v) == <<v>>

Msg(level, key, name, num) == [level |-> level, key |-> key, name |-> name, num |-> num]

\* the messages of ms shown with the given Streamlit call
OfLevel(ms, level) == SelectSeq(ms, LAMBDA m : m.level = level)

-----------------------------------------------------------------------------
(* The class table *)

get_coco_classes == <<
    "person", "bicycle", "car", "motorcycle", "airplane", "bus", "train", "truck", "boat",
    "traffic light", "fire hydrant", "stop sign", "parking meter", "bench", "bird", "cat",
    "dog", "horse", "sheep", "cow", "elephant", "bear", "zebra", "giraffe", "backpack",
    "umbrella", "handbag", "tie", "suitcase", "frisbee", "skis", "snowboard",
    "sports ball", "kite", "baseball bat", "baseball glove", "skateboard", "surfboard",
    "tennis racket", "bottle", "wine glass", "cup", "fork", "knife", "spoon", "bowl",
    "banana", "apple", "sandwich", "orange", "broccoli", "carrot", "hot dog", "pizza",
    "donut", "cake", "chair", "couch", "potted plant", "bed", "dining table", "toilet",
    "tv", "laptop", "mouse", "remote", "keyboard", "cell phone", "microwave", "oven",
    "toaster", "sink", "refrigerator", "book", "clock", "vase", "scissors", "teddy bear",
    "hair drier", "toothbrush" >>

\* The table's names in the order of Python's string comparison, which is the
\* order np.unique returns them in.
SortedClassNames == <<
    "airplane", "apple", "backpack", "banana", "baseball bat", "baseball glove", "bear",
    "bed", "bench", "bicycle", "bird", "boat", "book", "bottle", "bowl", "broccoli", "bus",
    "cake", "car", "carrot", "cat", "cell phone", "chair", "clock", "couch", "cow", "cup",
    "dining table", "dog", "donut", "elephant", "fire hydrant", "fork", "frisbee",
    "giraffe", "hair drier", "handbag", "horse", "hot dog", "keyboard", "kite", "knife",
    "laptop", "microwave", "motorcycle", "mouse", "orange", "oven", "parking meter",
    "person", "pizza", "potted plant", "refrigerator", "remote", "sandwich", "scissors",
    "sheep", "sink", "skateboard", "skis", "snowboard", "spoon", "sports ball",
    "stop sign", "suitcase", "surfboard", "teddy bear", "tennis racket", "tie", "toaster",
    "toilet", "toothbrush", "traffic light", "train", "truck", "tv", "umbrella", "vase",
    "wine glass", "zebra" >>

\* position of a class name in Python's string order
NameRank(name) == CHOOSE i \in DOMAIN SortedClassNames : SortedClassNames[i] = name

\* Python list indexing list[i]: 0-based, a negative i counts from the end,
\* anything else raises IndexError.
PyIndexOk(list, i) == /\ i >= 0 - Len(list)
                      /\ i < Len(list)

PyIndex(list, i) == IF i >= 0 THEN list[i + 1] ELSE list[Len(list) + i + 1]

\* results.names of the model: a dict keyed by the class ids 0 .. 79
\* (names[k] raises KeyError for any other key)
NamesHasKey(class_id) == /\ class_id >= 0
                         /\ class_id < Len(get_coco_classes)

names(class_id) == get_coco_classes[class_id + 1]

-----------------------------------------------------------------------------
(* What the model call yields *)

Boxes == { <<10, 10, 50, 50>>, <<20, 30, 60, 90>> }
ConfValues == {400, 800, 1200}
ClassIds == {-1, 0, 2, 80}
ElapsedValues == {0, 7}

SeqsUpTo(S, n) == UNION { [1..k -> S] : k \in 0..n }

Prediction(S_box, S_conf, S_cls) == [box : S_box, conf : S_conf, cls : S_cls]

\* kind "raise": the call raises; "empty": it returns an empty list;
\* "noboxes": it returns a result whose boxes attribute is None;
\* "boxes": it returns a result whose boxes hold the predictions preds.
RawOf(kind, preds) == [kind |-> kind, preds |-> preds]

\* a crowded image: LongLen predictions, more than the renderer has colours
LongPreds ==
    [ i \in 1..LongLen |->
        [box  |-> IF i % 2 = 0 THEN <<10, 10, 50, 50>> ELSE <<20, 30, 60, 90>>,
         conf |-> IF i % 3 = 0 THEN 400 ELSE 800,
         cls  |-> IF i % 4 = 0 THEN 2 ELSE 0] ]

\* two predictions whose different class ids index the same entry of the
\* class table: -1 and the table's last index
AliasPreds ==
    << [box |-> <<10, 10, 50, 50>>, conf |-> 800, cls |-> -1],
       [box |-> <<20, 30, 60, 90>>, conf |-> 400, cls |-> Len(get_coco_classes) - 1] >>

RawOutputs ==
    { RawOf(k, <<>>) : k \in {"raise", "empty", "noboxes"} }
    \cup { RawOf("boxes", p) : p \in SeqsUpTo(Prediction(Boxes, ConfValues, ClassIds), MaxPreds) }
    \cup { RawOf("boxes", LongPreds), RawOf("boxes", AliasPreds) }

\* the list the model call returns (for a call that returns)
ModelResults(r) ==
    CASE r.kind = "empty"   -> <<>>
      [] r.kind = "noboxes" -> << [boxes |-> None] >>
      [] OTHER              -> << [boxes |-> Some(r.preds)] >>

-----------------------------------------------------------------------------
(* Aggregates and per-class counting *)

RECURSIVE SeqSum(_)
SeqSum(s) == IF s = <<>> THEN 0 ELSE s[1] + SeqSum(Tail(s))

SeqMax(s) == CHOOSE x \in { s[i] : i \in DOMAIN s } : \A i \in DOMAIN s : x >= s[i]
SeqMin(s) == CHOOSE x \in { s[i] : i \in DOMAIN s } : \A i \in DOMAIN s : x <= s[i]

\* a quotient of thousandths shown with three decimals (":.3f"): the nearest
\* thousandth
Fmt3Quot(total, n) == (2 * total + n) \div (2 * n)

\* np.max and np.min raise ValueError on a zero-size array
NpReduceRaises(scores) == Len(scores) = 0

\* an update that stores 1 instead of adding 1 to the entry's count
DictSetOne(d, class_name) ==
    IF \E i \in DOMAIN d : d[i].name = class_name
    THEN [ i \in DOMAIN d |->
             IF d[i].name = class_name
             THEN [name |-> class_name, count |-> 1]
             ELSE d[i] ]
    ELSE Append(d, [name |-> class_name, count |-> 1])

\* a count that makes a new entry for every item
DictAppend(d, class_name) == Append(d, [name |-> class_name, count |-> 1])

\* class_counts[class_name] = class_counts.get(class_name, 0) + 1 on a dict
\* kept in insertion order: a sequence of [name, count] entries
DictIncr(d, class_name) ==
    IF \E i \in DOMAIN d : d[i].name = class_name
    THEN [ i \in DOMAIN d |->
             IF d[i].name = class_name
             THEN [name |-> class_name, count |-> d[i].count + 1]
             ELSE d[i] ]
    ELSE Append(d, [name |-> class_name, count |-> 1])

\* the single pass over the class names that builds the dict
RECURSIVE CountPass(_, _)
CountPass(d, class_names) ==
    IF class_names = <<>> THEN d
    ELSE CountPass(DictIncr(d, class_names[1]), Tail(class_names))

\* insertion of an entry into a sequence kept in descending order of count,
\* behind the entries of equal count (Python's sort is stable, also with
\* reverse=True)
RECURSIVE InsertByCountDesc(_, _)
InsertByCountDesc(sorted, e) ==
    IF sorted = <<>> THEN <<e>>
    ELSE IF sorted[1].count >= e.count
         THEN <<sorted[1]>> \o InsertByCountDesc(Tail(sorted), e)
         ELSE <<e>> \o sorted

\* sorted(class_counts.items(), key=lambda x: x[1], reverse=True)
RECURSIVE SortedByCountDesc(_)
SortedByCountDesc(d) ==
    IF d = <<>> THEN <<>>
    ELSE InsertByCountDesc(SortedByCountDesc(SubSeq(d, 1, Len(d) - 1)), d[Len(d)])

\* insertion of an entry into a sequence kept in ascending order of name
RECURSIVE InsertByName(_, _)
InsertByName(sorted, e) ==
    IF sorted = <<>> THEN <<e>>
    ELSE IF NameRank(sorted[1].name) <= NameRank(e.name)
         THEN <<sorted[1]>> \o InsertByName(Tail(sorted), e)
         ELSE <<e>> \o sorted

RECURSIVE SortedByName(_)
SortedByName(d) ==
    IF d = <<>> THEN <<>>
    ELSE InsertByName(SortedByName(Tail(d)), d[1])

\* the distinct names in sorted order, each counted once
np_unique_ones(class_names) ==
    SortedByName(
        SelectSeq(
            [ i \in DOMAIN class_names |->
                [name |-> class_names[i],
                 count |-> IF \E j \in 1..(i - 1) : class_names[j] = class_names[i]
                           THEN 0 ELSE 1] ],
            LAMBDA e : e.count > 0))

\* np.unique(class_names, return_counts=True): the distinct names in sorted
\* order, each with its number of occurrences
np_unique(class_names) ==
    SortedByName(
        SelectSeq(
            [ i \in DOMAIN class_names |->
                [name |-> class_names[i],
                 count |-> IF \E j \in 1..(i - 1) : class_names[j] = class_names[i]
                           THEN 0
                           ELSE Cardinality({ j \in DOMAIN class_names :
                                                class_names[j] = class_names[i] })] ],
            LAMBDA e : e.count > 0))

-----------------------------------------------------------------------------
(* YOLODetectionProcessor.run_inference *)

Outcome(value, msgs) == [value |-> value, msgs |-> msgs]

\* the except clause of run_inference: the error, its detail in debug mode,
\* and the failure value
InferenceExcept(shown, debug) ==
    Outcome(None,
            shown \o << Msg("error", "inference_failed", "", 0) >>
                  \o (IF debug THEN << Msg("write", "error_detail", "", 0) >> ELSE <<>>))

\* a check that also takes an empty boxes container for a missing one
BoxesPresentAndNonEmpty(result) == /\ result.boxes /= None
                                   /\ Len(result.boxes[1]) > 0

\* "if boxes is not None"
BoxesPresent(result) == result.boxes /= None

\* the debug report of a detection result, up to the point where it raises
DebugReport(scores, class_names) ==
    LET head == << Msg("write", "detection_header", "", 0),
                   Msg("write", "detected_count", "", Len(scores)) >>
        uniq == np_unique(class_names)
    IN  IF NpReduceRaises(scores)
        THEN [raised |-> TRUE,
              msgs |-> head \o << Msg("write", "mean_confidence", "nan", 0) >>]
        ELSE [raised |-> FALSE,
              msgs |-> head
                  \o << Msg("write", "mean_confidence", "",
                            Fmt3Quot(SeqSum(scores), Len(scores))),
                        Msg("write", "max_confidence", "", SeqMax(scores)),
                        Msg("write", "class_counts_header", "", 0) >>
                  \o [ i \in DOMAIN uniq |->
                         Msg("write", "class_count", uniq[i].name, uniq[i].count) ]]

\* a normalization that stores the elapsed time whether or not debug_mode is set
NormalizeBoxesTimed(preds, debug, t, shown) ==
    LET bbox_data         == [ i \in DOMAIN preds |-> preds[i].box ]
        confidence_scores == [ i \in DOMAIN preds |-> preds[i].conf ]
        class_ids         == [ i \in DOMAIN preds |-> preds[i].cls ]
        coco_classes      == get_coco_classes
    IN  IF \E i \in DOMAIN class_ids : ~PyIndexOk(coco_classes, class_ids[i])
        THEN InferenceExcept(shown, debug)
        ELSE LET class_names == [ i \in DOMAIN class_ids |->
                                    PyIndex(coco_classes, class_ids[i]) ]
                 detection_result ==
                     [boxes          |-> bbox_data,
                      scores         |-> confidence_scores,
                      class_ids      |-> class_ids,
                      class_names    |-> class_names,
                      inference_time |-> Some(t)]
                 report == DebugReport(confidence_scores, class_names)
             IN  IF ~debug THEN Outcome(Some(detection_result), shown)
                 ELSE IF report.raised
                      THEN InferenceExcept(shown \o report.msgs, debug)
                      ELSE Outcome(Some(detection_result), shown \o report.msgs)

\* the body of "if boxes is not None": reading the boxes, resolving the class
\* names and building the detection result
NormalizeBoxes(preds, debug, t, shown) ==
    LET bbox_data         == [ i \in DOMAIN preds |-> preds[i].box ]
        confidence_scores == [ i \in DOMAIN preds |-> preds[i].conf ]
        class_ids         == [ i \in DOMAIN preds |-> preds[i].cls ]
        coco_classes      == get_coco_classes
    IN  IF \E i \in DOMAIN class_ids : ~PyIndexOk(coco_classes, class_ids[i])
        THEN InferenceExcept(shown, debug)
        ELSE LET class_names == [ i \in DOMAIN class_ids |->
                                    PyIndex(coco_classes, class_ids[i]) ]
                 detection_result ==
                     [boxes          |-> bbox_data,
                      scores         |-> confidence_scores,
                      class_ids      |-> class_ids,
                      class_names    |-> class_names,
                      inference_time |-> IF debug THEN Some(t) ELSE None]
                 report == DebugReport(confidence_scores, class_names)
             IN  IF ~debug THEN Outcome(Some(detection_result), shown)
                 ELSE IF report.raised
                      THEN InferenceExcept(shown \o report.msgs, debug)
                      ELSE Outcome(Some(detection_result), shown \o report.msgs)

run_inference(r, debug, t) ==
    LET started == IF debug THEN << Msg("write", "inference_running", "", 0) >> ELSE <<>>
    IN  IF r.kind = "raise" THEN InferenceExcept(started, debug)
        ELSE
        LET shown   == started \o
                       (IF debug THEN << Msg("write", "inference_done", "", t) >> ELSE <<>>)
            results == ModelResults(r)
        IN  IF Len(results) > 0
            THEN LET result == results[1]
                 IN  IF BoxesPresent(result)
                     THEN NormalizeBoxes(result.boxes[1], debug, t, shown)
                     ELSE Outcome(None,
                                  shown \o (IF debug
                                            THEN << Msg("warning", "no_objects_detected", "", 0) >>
                                            ELSE <<>>))
            ELSE Outcome(None,
                         shown \o (IF debug
                                   THEN << Msg("warning", "inference_result_empty", "", 0) >>
                                   ELSE <<>>))

-----------------------------------------------------------------------------
(* The statistics routines *)

\* what a display routine did: the messages it showed, and whether it ended
\* by raising (exc names the exception, "" if none)
Shown(msgs) == [raised |-> FALSE, exc |-> "", msgs |-> msgs]
Raised(exc, msgs) == [raised |-> TRUE, exc |-> exc, msgs |-> msgs]

\* Python truth value of detection_result.get('inference_time')
TimeIsTruthy(inference_time) == /\ inference_time /= None
                                /\ inference_time[1] /= 0

ClassCountLines(level, counts) ==
    [ i \in DOMAIN counts |-> Msg(level, "class_count", counts[i].name, counts[i].count) ]

\* ResultsManager.display_detection_results(detection_result, debug_mode)
display_detection_results(detection_result, debug) ==
    IF detection_result = None
    THEN Shown(<< Msg("warning", "no_detection_result", "", 0) >>)
    ELSE
    LET boxes       == detection_result[1].boxes
        scores      == detection_result[1].scores
        class_names == detection_result[1].class_names
        head   == << Msg("subheader", "detection_results", "", 0),
                     Msg("metric", "detected_count", "", Len(boxes)) >>
        counts == CountPass(<<>>, class_names)
    IN  IF Len(scores) = 0
        THEN Raised("ZeroDivisionError", head)
        ELSE Shown(
               head
               \o << Msg("metric", "mean_confidence", "",
                         Fmt3Quot(SeqSum(scores), Len(scores))) >>
               \o (IF TimeIsTruthy(detection_result[1].inference_time)
                   THEN << Msg("metric", "inference_time", "",
                               detection_result[1].inference_time[1]) >>
                   ELSE <<>>)
               \o (IF debug
                   THEN << Msg("write", "detection_details", "", 0) >>
                        \o [ i \in 1..Len(class_names) |->
                               Msg("write", "detection_detail", class_names[i], scores[i]) ]
                   ELSE <<>>)
               \o << Msg("write", "class_counts_header", "", 0) >>
               \o ClassCountLines("write", counts))

\* YOLODebugInfo.display_detection_stats(detection_result)
display_detection_stats(detection_result) ==
    IF detection_result = None
    THEN Shown(<<>>)
    ELSE
    LET boxes       == detection_result[1].boxes
        scores      == detection_result[1].scores
        class_names == detection_result[1].class_names
        head   == << Msg("subheader", "detection_stats", "", 0),
                     Msg("metric", "detected_count", "", Len(boxes)) >>
        counts == np_unique(class_names)
    IN  IF NpReduceRaises(scores)
        THEN Raised("ValueError",
                    head \o << Msg("metric", "mean_confidence", "nan", 0) >>)
        ELSE Shown(
               head
               \o << Msg("metric", "mean_confidence", "",
                         Fmt3Quot(SeqSum(scores), Len(scores))),
                     Msg("metric", "max_confidence", "", SeqMax(scores)),
                     Msg("metric", "min_confidence", "", SeqMin(scores)),
                     Msg("metric", "unique_classes", "", Len(counts)) >>
               \o (IF TimeIsTruthy(detection_result[1].inference_time)
                   THEN << Msg("metric", "inference_time", "",
                               detection_result[1].inference_time[1]) >>
                   ELSE <<>>)
               \o << Msg("write", "class_counts_header", "", 0) >>
               \o ClassCountLines("write", counts)
               \o (IF Len(scores) > 0
                   THEN << Msg("pyplot", "confidence_histogram", "", Len(scores)) >>
                   ELSE <<>>))

\* a check that leaves out the length test
HasBoxes(results) == results.boxes /= None

\* "results.boxes is not None and len(results.boxes) > 0"
HasDetections(results) == /\ results.boxes /= None
                          /\ Len(results.boxes[1]) > 0

\* a confidence metric of the statistics tab: the aggregate to three decimals,
\* or "N/A"
ConfidenceMetric(results, key, value) ==
    IF HasDetections(results)
    THEN Msg("metric", key, "", value)
    ELSE Msg("metric", key, "N/A", 0)

\* the loop over results.boxes that counts the class names
ClassCounts(preds) ==
    CountPass(<<>>, [ i \in DOMAIN preds |-> names(preds[i].cls) ])

\* YOLOApp._display_detection_statistics, on session_state.detection_results
display_detection_statistics(stored) ==
    IF stored = None
    THEN Shown(<<>>)
    ELSE
    LET results == stored[1]
        preds   == IF results.boxes /= None THEN results.boxes[1] ELSE <<>>
        conf    == [ i \in DOMAIN preds |-> preds[i].conf ]
        metrics ==
            << Msg("metric", "detected_count", "",
                   IF results.boxes /= None THEN Len(results.boxes[1]) ELSE 0),
               ConfidenceMetric(results, "mean_confidence",
                                IF conf = <<>> THEN 0 ELSE Fmt3Quot(SeqSum(conf), Len(conf))),
               ConfidenceMetric(results, "max_confidence",
                                IF conf = <<>> THEN 0 ELSE SeqMax(conf)),
               ConfidenceMetric(results, "min_confidence",
                                IF conf = <<>> THEN 0 ELSE SeqMin(conf)) >>
    IN  IF ~HasDetections(results)
        THEN Shown(metrics)
        ELSE IF \E i \in DOMAIN preds : ~NamesHasKey(preds[i].cls)
             THEN Raised("KeyError",
                         metrics \o << Msg("subheader", "class_statistics", "", 0) >>)
             ELSE Shown(metrics
                        \o << Msg("subheader", "class_statistics", "", 0) >>
                        \o ClassCountLines("markdown",
                                           SortedByCountDesc(ClassCounts(preds))))

\* YOLOApp._display_statistics_tab
display_statistics_tab(stored) ==
    IF stored /= None
    THEN display_detection_statistics(stored)
    ELSE Shown(<< Msg("info", "no_detection_results", "", 0) >>)

-----------------------------------------------------------------------------
(* YOLOModelManager *)

\* detect_objects with an except clause that shows nothing
detect_objects_silent(model, r) ==
    IF model = None
    THEN [value |-> None, invoked |-> FALSE, raised |-> FALSE,
          msgs |-> << Msg("error", "model_not_loaded", "", 0) >>]
    ELSE IF r.kind = "raise"
    THEN [value |-> None, invoked |-> TRUE, raised |-> TRUE, msgs |-> <<>>]
    ELSE LET results == ModelResults(r)
         IN  [value |-> IF Len(results) > 0 THEN Some(results[1]) ELSE None,
              invoked |-> TRUE, raised |-> FALSE, msgs |-> <<>>]

\* detect_objects returning nothing when the model gave results
detect_objects_dropped(model, r) ==
    IF model = None
    THEN [value |-> None, invoked |-> FALSE, raised |-> FALSE,
          msgs |-> << Msg("error", "model_not_loaded", "", 0) >>]
    ELSE IF r.kind = "raise"
    THEN [value |-> None, invoked |-> TRUE, raised |-> TRUE,
          msgs |-> << Msg("error", "detection_error", "", 0) >>]
    ELSE LET results == ModelResults(r)
         IN  [value |-> IF Len(results) > 0 THEN None ELSE Some(results[1]),
              invoked |-> TRUE, raised |-> FALSE, msgs |-> <<>>]

\* YOLOModelManager.detect_objects on a manager whose model attribute is
\* model, when the model call yields r
detect_objects(model, r) ==
    IF model = None
    THEN [value |-> None, invoked |-> FALSE, raised |-> FALSE,
          msgs |-> << Msg("error", "model_not_loaded", "", 0) >>]
    ELSE IF r.kind = "raise"
    THEN [value |-> None, invoked |-> TRUE, raised |-> TRUE,
          msgs |-> << Msg("error", "detection_error", "", 0) >>]
    ELSE LET results == ModelResults(r)
         IN  [value |-> IF Len(results) > 0 THEN Some(results[1]) ELSE None,
              invoked |-> TRUE, raised |-> FALSE, msgs |-> <<>>]

\* a loader without the resource cache: the body runs at every call
LoaderCallUncached(cache, constructor_ok) ==
    IF constructor_ok
    THEN [value |-> Some("yolov8n.pt"), constructed |-> TRUE,
          cache |-> Some(Some("yolov8n.pt")), msgs |-> <<>>]
    ELSE [value |-> None, constructed |-> TRUE, cache |-> Some(None),
          msgs |-> << Msg("error", "model_load_failed", "", 0) >>]

\* YOLOModelLoader.load_model under st.cache_resource: the cached value when
\* there is an entry, otherwise the body's result (the model, or None when
\* the constructor raised), which becomes the entry.  constructor_ok is
\* whether YOLO(model_name) succeeds when it is run.
LoaderCall(cache, constructor_ok) ==
    IF cache /= None
    THEN [value |-> cache[1], constructed |-> FALSE, cache |-> cache, msgs |-> <<>>]
    ELSE IF constructor_ok
    THEN [value |-> Some("yolov8n.pt"), constructed |-> TRUE,
          cache |-> Some(Some("yolov8n.pt")), msgs |-> <<>>]
    ELSE [value |-> None, constructed |-> TRUE, cache |-> Some(None),
          msgs |-> << Msg("error", "model_load_failed", "", 0) >>]

\* YOLOModelManager.load_model: stores the loader's value in self.model and
\* returns whether it is a model
load_model(cache, constructor_ok) ==
    LET loaded == LoaderCall(cache, constructor_ok)
    IN  [model |-> loaded.value, ok |-> loaded.value /= None,
         constructed |-> loaded.constructed, cache |-> loaded.cache,
         msgs |-> loaded.msgs]

-----------------------------------------------------------------------------
(* YOLODetectionProcessor.create_visualization *)

\* An image is its identity and the drawing operations applied to it.
SourceImage(id) == [id |-> id, ops |-> <<>>]

\* the images handed to the renderer
SourceImages == { SourceImage(id) : id \in {"imgA", "imgB"} }

\* the colour list of the renderer
colors == << "#FF0000", "#00FF00", "#0000FF", "#FFFF00", "#FF00FF",
             "#00FFFF", "#FFA500", "#800080", "#008000", "#800000" >>

\* a colour choice that stays on the last colour instead of wrapping around
PaletteColorClamped(i) == colors[(IF i < Len(colors) THEN i ELSE Len(colors) - 1) + 1]

\* colors[i % len(colors)], i counted from 0
PaletteColor(i) == colors[(i % Len(colors)) + 1]

\* drawing on the image that was passed in
ImageAlias(image) == [pixels |-> image, shared |-> TRUE]

\* image.copy(): a new image with the same content
ImageCopy(image) == [pixels |-> image, shared |-> FALSE]

\* a font set-up without the fallback: the failure of truetype stays
load_font_no_fallback(truetype_ok) ==
    IF truetype_ok THEN [loaded |-> TRUE, font |-> "arial.ttf"]
    ELSE [loaded |-> FALSE, font |-> ""]

\* try: ImageFont.truetype("arial.ttf", 16)  except: ImageFont.load_default()
load_font(truetype_ok) ==
    IF truetype_ok THEN [loaded |-> TRUE, font |-> "arial.ttf"]
    ELSE [loaded |-> TRUE, font |-> "default"]

\* f"{score:.2f}" of a confidence in thousandths: the number of hundredths
\* (the confidences of the model are multiples of a hundredth)
Fmt2(score) == (score + 5) \div 10

\* f"{class_name}: {score:.2f}"
label_text(class_name, score) ==
    [class_name |-> class_name, digits |-> Fmt2(score), decimals |-> 2]

NoLabel == [class_name |-> "", digits |-> 0, decimals |-> 0]

\* the extent of a label as draw.textbbox measures it; it depends on the font
TextExtent(font) == IF font = "arial.ttf" THEN <<64, 16>> ELSE <<48, 11>>

\* draw.textbbox((x, y), label_text, font=font)
textbbox(x, y, font) == <<x, y, x + TextExtent(font)[1], y + TextExtent(font)[2]>>

\* the three drawing calls of one pass of the loop
DrawItem(i, box, score, class_name, font) ==
    LET color == PaletteColor(i)
        x1 == box[1]
        y1 == box[2]
        label == label_text(class_name, score)
    IN  << [op |-> "rectangle", xy |-> box, outline |-> color, fill |-> "",
            width |-> 3, label |-> NoLabel, font |-> ""],
           [op |-> "rectangle", xy |-> textbbox(x1, y1 - 20, font), outline |-> "",
            fill |-> color, width |-> 0, label |-> NoLabel, font |-> ""],
           [op |-> "text", xy |-> <<x1, y1 - 20>>, outline |-> "", fill |-> "white",
            width |-> 0, label |-> label, font |-> font] >>

\* the loop over enumerate(zip(boxes, scores, class_names))
RECURSIVE DrawItems(_, _, _, _, _)
DrawItems(n, boxes, scores, class_names, font) ==
    IF n = 0 THEN <<>>
    ELSE DrawItems(n - 1, boxes, scores, class_names, font)
         \o DrawItem(n - 1, boxes[n], scores[n], class_names[n], font)

Min3(a, b, c) == IF a <= b /\ a <= c THEN a ELSE IF b <= c THEN b ELSE c

\* the except clause of create_visualization
VisualizationExcept(image, shown, debug) ==
    [value |-> None, source |-> image,
     msgs |-> shown \o << Msg("error", "visualization_failed", "", 0) >>
                    \o (IF debug THEN << Msg("write", "error_detail", "", 0) >> ELSE <<>>)]

\* create_visualization(image, detection_result, debug_mode); truetype_ok is
\* whether the preferred font can be loaded.  source is the image that was
\* passed in, as it is after the call.
create_visualization(image, detection_result, debug, truetype_ok) ==
    LET shown  == IF debug THEN << Msg("write", "visualizing", "", 0) >> ELSE <<>>
        target == ImageCopy(image)
        font   == load_font(truetype_ok)
    IN  IF detection_result = None \/ ~font.loaded
        THEN VisualizationExcept(image, shown, debug)
        ELSE
        LET boxes       == detection_result[1].boxes
            scores      == detection_result[1].scores
            class_names == detection_result[1].class_names
            n     == Min3(Len(boxes), Len(scores), Len(class_names))
            drawn == [id  |-> target.pixels.id,
                      ops |-> target.pixels.ops
                              \o DrawItems(n, boxes, scores, class_names, font.font)]
        IN  [value  |-> Some(drawn),
             source |-> IF target.shared THEN drawn ELSE image,
             msgs   |-> shown \o (IF debug
                                  THEN << Msg("write", "visualization_done", "", 0) >>
                                  ELSE <<>>)]

-----------------------------------------------------------------------------
(* The detection processor pipeline: SpecProc *)

\* session state before the first script run: the values YOLOApp.__init__
\* gives the keys that are absent; the sidebar's keys are unset
SessionStart ==
    /\ detection_results = None
    /\ uploaded_image = None
    /\ model_loaded = FALSE
    /\ confidence_threshold = None
    /\ nms_threshold = None

IdleRun == [kind |-> "none", clicked |-> FALSE, load_called |-> FALSE,
            load_ok |-> FALSE, constructed |-> FALSE, invoked |-> FALSE,
            raised |-> FALSE, detect_failed |-> FALSE, stored |-> FALSE,
            conf_passed |-> None, nms_passed |-> None, model_output |-> None,
            image_passed |-> None,
            msgs |-> <<>>, displayed |-> None, stats |-> None]

InitProc ==
    /\ SessionStart
    /\ cache_resource = None
    /\ run = IdleRun
    /\ raw \in RawOutputs
    /\ debug_mode \in BOOLEAN
    /\ elapsed \in (IF debug_mode THEN ElapsedValues ELSE {0})
    /\ ri = None
    /\ rm = None
    /\ di = None
    /\ det = None
    /\ stt = None
    /\ fetch = None
    /\ ri2 = None
    /\ vis = None
    /\ font_env = None
    /\ font_run = None

RunInference ==
    /\ ri = None
    /\ ri' = Some(run_inference(raw, debug_mode, elapsed))
    /\ UNCHANGED <<sessVars, fontVars, ioVars, raw, debug_mode, elapsed, rm, di, det, stt>>

DisplayDetectionResults ==
    /\ ri /= None
    /\ rm = None
    /\ rm' = Some(display_detection_results(ri[1].value, debug_mode))
    /\ UNCHANGED <<sessVars, fontVars, ioVars, raw, debug_mode, elapsed, ri, di, det, stt>>

DisplayDetectionStats ==
    /\ ri /= None
    /\ di = None
    /\ di' = Some(display_detection_stats(ri[1].value))
    /\ UNCHANGED <<sessVars, fontVars, ioVars, raw, debug_mode, elapsed, ri, rm, det, stt>>

DetectObjects ==
    /\ det = None
    /\ det' = Some(detect_objects(Some("yolov8n.pt"), raw))
    /\ UNCHANGED <<sessVars, fontVars, ioVars, raw, debug_mode, elapsed, ri, rm, di, stt>>

DisplayStatistics ==
    /\ det /= None
    /\ stt = None
    /\ stt' = Some(display_statistics_tab(det[1].value))
    /\ UNCHANGED <<sessVars, fontVars, ioVars, raw, debug_mode, elapsed, ri, rm, di, det>>

NextProc ==
    \/ RunInference
    \/ DisplayDetectionResults
    \/ DisplayDetectionStats
    \/ DetectObjects
    \/ DisplayStatistics

SpecProc == InitProc /\ [][NextProc]_vars

-----------------------------------------------------------------------------
(* The rendering pipeline: SpecVis *)

\* run_inference once more on the same model output; t is the time that
\* passes around this model call
RunInferenceAgain ==
    /\ ri /= None
    /\ ri2 = None
    /\ \E t \in ElapsedValues :
         ri2' = Some(run_inference(raw, debug_mode, t))
    /\ UNCHANGED <<sessVars, fontVars, procVars, fetch, vis>>

\* the detection result of run_inference is drawn on an image
CreateVisualization ==
    /\ ri /= None
    /\ vis = None
    /\ \E image \in SourceImages, truetype_ok \in BOOLEAN :
         vis' = Some([image |-> image, truetype_ok |-> truetype_ok,
                      out |-> create_visualization(image, ri[1].value,
                                                   debug_mode, truetype_ok)])
    /\ UNCHANGED <<sessVars, fontVars, procVars, fetch, ri2>>

NextVis ==
    \/ RunInference
    \/ RunInferenceAgain
    \/ CreateVisualization

SpecVis == InitProc /\ [][NextVis]_vars


-----------------------------------------------------------------------------
(* The application session: Spec *)

Images == {"imgA", "imgB"}

\* slider defaults, in hundredths
DefaultConfidence == 50
DefaultNms == 40
\* seconds a remote image request may take
RequestTimeout == 10
ConfidenceChoices == {DefaultConfidence, 100}
NmsChoices == {DefaultNms, 100}

\* what the model yields for an uploaded image: its class ids are keys of its
\* own names and its confidences lie in [0, 1]
RunRawOutputs ==
    { RawOf(k, <<>>) : k \in {"raise", "empty", "noboxes"} }
    \cup { RawOf("boxes", p) :
             p \in SeqsUpTo(Prediction({<<10, 10, 50, 50>>}, {400, 800}, {0, 2}),
                            MaxRunPreds) }

\* YOLOApp._display_detection_tab, from the session state s and a fresh model
\* manager (model None).  file is what the upload widget returns, clicked
\* whether the "run detection" button was pressed in this run, constructor_ok
\* and r what the model constructor and the model call do if they are run.
display_detection_tab(s, file, clicked, constructor_ok, r) ==
    LET doRun     == file /= None /\ clicked
        doLoad    == doRun /\ ~s.model_loaded
        loaded    == load_model(s.cache_resource, constructor_ok)
        model     == IF doLoad THEN loaded.model ELSE None
        detected  == detect_objects(model, r)
        results   == IF doRun THEN detected.value ELSE s.detection_results
        image     == IF file /= None THEN file ELSE s.uploaded_image
    IN  [detection_results |-> results,
         uploaded_image    |-> image,
         model_loaded      |-> IF doLoad THEN TRUE ELSE s.model_loaded,
         cache_resource    |-> IF doLoad THEN loaded.cache ELSE s.cache_resource,
         clicked       |-> doRun,
         load_called   |-> doLoad,
         load_ok       |-> doLoad /\ loaded.ok,
         constructed   |-> doLoad /\ loaded.constructed,
         invoked       |-> doRun /\ detected.invoked,
         raised        |-> doRun /\ detected.raised,
         detect_failed |-> doRun /\ detected.msgs /= <<>>,
         stored        |-> doRun,
         conf_passed   |-> IF doRun /\ detected.invoked
                           THEN s.confidence_threshold ELSE None,
         nms_passed    |-> IF doRun /\ detected.invoked
                           THEN s.nms_threshold ELSE None,
         image_passed  |-> IF doRun /\ detected.invoked THEN file ELSE None,
         msgs |-> IF doRun
                  THEN (IF doLoad THEN loaded.msgs ELSE <<>>)
                       \o detected.msgs
                       \o << Msg("success", "detection_complete", "", 0) >>
                  ELSE <<>>,
         displayed |-> IF file /= None /\ results /= None
                       THEN Some([image |-> image, results |-> results])
                       ELSE None]

\* a sidebar that shows the sliders and stores nothing
display_sidebar_unstored(s, conf, nms) == s

\* YOLOApp._display_sidebar: the sliders' values conf and nms are stored in
\* the session
display_sidebar(s, conf, nms) ==
    [s EXCEPT !.confidence_threshold = Some(conf), !.nms_threshold = Some(nms)]

\* One script run: main() builds a YOLOApp and runs it (the sidebar stores
\* the sliders' values conf and nms, then the tabs are shown).  The result is
\* the session state and the resource cache after the run, and the run's log.
main(file, clicked, conf, nms, constructor_ok, r) ==
    LET before == [detection_results    |-> detection_results,
                   uploaded_image       |-> uploaded_image,
                   model_loaded         |-> model_loaded,
                   confidence_threshold |-> confidence_threshold,
                   nms_threshold        |-> nms_threshold,
                   cache_resource       |-> cache_resource]
        s == display_sidebar(before, conf, nms)
        tab   == display_detection_tab(s, file, clicked, constructor_ok, r)
        stats == display_statistics_tab(tab.detection_results)
    IN  [detection_results    |-> tab.detection_results,
         uploaded_image       |-> tab.uploaded_image,
         model_loaded         |-> tab.model_loaded,
         confidence_threshold |-> s.confidence_threshold,
         nms_threshold        |-> s.nms_threshold,
         cache_resource       |-> tab.cache_resource,
         run |-> [kind |-> "run", clicked |-> tab.clicked,
                  load_called |-> tab.load_called, load_ok |-> tab.load_ok,
                  constructed |-> tab.constructed, invoked |-> tab.invoked,
                  raised |-> tab.raised, detect_failed |-> tab.detect_failed,
                  stored |-> tab.stored,
                  conf_passed |-> tab.conf_passed, nms_passed |-> tab.nms_passed,
                  model_output |-> IF tab.invoked THEN Some(r) ELSE None,
                  image_passed |-> tab.image_passed,
                  msgs |-> tab.msgs
                           \o (IF stats.raised
                               THEN << Msg("error", "application_error", stats.exc, 0) >>
                               ELSE <<>>),
                  displayed |-> tab.displayed, stats |-> Some(stats)]]

\* the state a script run leaves
Commit(after) ==
    /\ detection_results' = after.detection_results
    /\ uploaded_image' = after.uploaded_image
    /\ model_loaded' = after.model_loaded
    /\ confidence_threshold' = after.confidence_threshold
    /\ nms_threshold' = after.nms_threshold
    /\ cache_resource' = after.cache_resource
    /\ run' = after.run

\* The model constructor is run by a detection run only when the model is to
\* be loaded and the resource cache has no entry; the model is called only
\* when the run's manager then holds a model.
ConstructorOutcomes ==
    IF ~model_loaded /\ cache_resource = None THEN BOOLEAN ELSE {TRUE}

ModelOutcomes(constructor_ok) ==
    IF ~model_loaded /\ load_model(cache_resource, constructor_ok).ok
    THEN RunRawOutputs
    ELSE { RawOf("empty", <<>>) }

-----------------------------------------------------------------------------
(* InputManager: the image input section and its remote loaders *)

\* what can become of the request for a remote image
FetchOutcomes == {"ok", "timeout", "connection_error", "http_error", "not_image"}

\* the exception requests.get, response.raise_for_status and Image.open raise
\* for an outcome ("" when the call returns)
GetRaises(outcome) ==
    CASE outcome = "timeout"          -> "Timeout"
      [] outcome = "connection_error" -> "ConnectionError"
      [] OTHER                        -> ""

\* a loader that does not look at the response status
StatusUnchecked(outcome) == ""

StatusRaises(outcome) == IF outcome = "http_error" THEN "HTTPError" ELSE ""

OpenRaises(outcome) == IF outcome = "not_image" THEN "UnidentifiedImageError" ELSE ""

\* a handler for the exceptions of the requests library only
except_RequestException(exc) == exc \in {"Timeout", "ConnectionError", "HTTPError"}

\* "except Exception": all of them are subclasses of Exception
except_Exception(exc) ==
    exc \in {"Timeout", "ConnectionError", "HTTPError", "UnidentifiedImageError"}

\* the try block both remote loaders share: get with the timeout, status
\* check, decode.  calls lists the calls made, in order.
RemoteLoad(errkey, outcome) ==
    LET e1 == GetRaises(outcome)
        e2 == IF e1 = "" THEN StatusRaises(outcome) ELSE ""
        e3 == IF e1 = "" /\ e2 = "" THEN OpenRaises(outcome) ELSE ""
        exc == IF e1 /= "" THEN e1 ELSE IF e2 /= "" THEN e2 ELSE e3
        calls == << [call |-> "requests.get", timeout |-> RequestTimeout] >>
                 \o (IF e1 = ""
                     THEN << [call |-> "raise_for_status", timeout |-> 0] >> ELSE <<>>)
                 \o (IF e1 = "" /\ e2 = ""
                     THEN << [call |-> "Image.open", timeout |-> 0] >> ELSE <<>>)
    IN  IF exc = ""
        THEN [value |-> Some("remote"), raised |-> FALSE, exc |-> "",
              msgs |-> <<>>, calls |-> calls]
        ELSE IF except_Exception(exc)
        THEN [value |-> None, raised |-> FALSE, exc |-> "",
              msgs |-> << Msg("error", errkey, exc, 0) >>, calls |-> calls]
        ELSE [value |-> None, raised |-> TRUE, exc |-> exc,
              msgs |-> <<>>, calls |-> calls]

NoLoad == [value |-> None, raised |-> FALSE, exc |-> "", msgs |-> <<>>, calls |-> <<>>]

\* InputManager._load_sample_image: the select box always holds a sample
load_sample_image(outcome) == RemoteLoad("sample_image_load_failed", outcome)

\* InputManager._load_url_image: nothing is fetched while the text input is empty
load_url_image(url_given, outcome) ==
    IF url_given THEN RemoteLoad("url_image_load_failed", outcome) ELSE NoLoad

\* InputManager.create_image_input_section with one of the two remote input
\* methods selected
create_image_input_section(method, url_given, outcome) ==
    LET loaded == IF method = "sample" THEN load_sample_image(outcome)
                  ELSE load_url_image(url_given, outcome)
    IN  [method |-> method,
         requested |-> loaded.calls /= <<>>,
         outcome |-> IF loaded.calls /= <<>> THEN outcome ELSE "",
         value |-> loaded.value, raised |-> loaded.raised, exc |-> loaded.exc,
         calls |-> loaded.calls,
         msgs |-> loaded.msgs
                  \o (IF loaded.raised THEN <<>>
                      ELSE IF loaded.value /= None
                      THEN << Msg("success", "image_loaded", "", 0) >>
                      ELSE << Msg("warning", "image_required", "", 0) >>)]

\* the image input section is shown: it reads and writes no session state
LoadImage ==
    \E method \in {"sample", "url"}, url_given \in BOOLEAN, outcome \in FetchOutcomes :
        /\ fetch' = Some(create_image_input_section(method, url_given, outcome))
        /\ UNCHANGED <<sessVars, fontVars, procVars, ri2, vis>>

-----------------------------------------------------------------------------
(* The steps of the application session: Spec *)

\* a script run in which the "run detection" button was not pressed (first
\* load of the page, a slider, a checkbox, the upload widget)
Rerun ==
    \E file \in {None} \cup { Some(i) : i \in Images },
       conf \in ConfidenceChoices, nms \in NmsChoices :
        /\ Commit(main(file, FALSE, conf, nms, TRUE, RawOf("empty", <<>>)))
        /\ UNCHANGED <<procVars, ioVars, fontVars>>

\* a script run caused by pressing "run detection", which is shown only while
\* the upload widget holds a file
DetectionRun ==
    \E i \in Images, conf \in ConfidenceChoices, nms \in NmsChoices :
      \E constructor_ok \in ConstructorOutcomes :
        \E r \in ModelOutcomes(constructor_ok) :
          /\ Commit(main(Some(i), TRUE, conf, nms, constructor_ok, r))
          /\ UNCHANGED <<procVars, ioVars, fontVars>>

\* a new browser session: an empty session state; the resource cache is
\* process-wide and stays
NewSession ==
    /\ run.kind = "run"
    /\ detection_results' = None
    /\ uploaded_image' = None
    /\ model_loaded' = FALSE
    /\ confidence_threshold' = None
    /\ nms_threshold' = None
    /\ run' = IdleRun
    /\ UNCHANGED <<cache_resource, procVars, ioVars, fontVars>>

Init ==
    /\ SessionStart
    /\ cache_resource = None
    /\ run = IdleRun
    /\ raw = RawOf("empty", <<>>)
    /\ debug_mode = FALSE
    /\ elapsed = 0
    /\ ri = None
    /\ rm = None
    /\ di = None
    /\ det = None
    /\ stt = None
    /\ fetch = None
    /\ ri2 = None
    /\ vis = None
    /\ font_env = None
    /\ font_run = None

Next ==
    \/ Rerun
    \/ DetectionRun
    \/ NewSession
    \/ LoadImage

Spec == Init /\ [][Next]_vars

-----------------------------------------------------------------------------
(* Properties of the application session (Spec) *)

C2_LoadFailureCommitsNothing ==
    [][ (run'.kind = "run" /\ run'.load_called /\ ~run'.load_ok)
        => /\ ~run'.invoked
           /\ ~model_loaded'
           /\ detection_results' = detection_results ]_vars

\* a stored result without items: its boxes are absent or empty
NoItems(results) == \/ results.boxes = None
                    \/ results.boxes[1] = <<>>

\* the statistics display of a result without items: count 0, the three
\* confidence metrics "N/A", nothing else
EmptyStatistics ==
    << Msg("metric", "detected_count", "", 0),
       Msg("metric", "mean_confidence", "N/A", 0),
       Msg("metric", "max_confidence", "N/A", 0),
       Msg("metric", "min_confidence", "N/A", 0) >>

\* C6: whenever the stored detection result has zero items (boxes empty or
\* absent), the statistics tab shows count 0, "N/A" for the mean, the maximum
\* and the minimum confidence, and no per-class entry.
C6_EmptyResultStatistics ==
    (run.kind = "run" /\ detection_results /= None
       /\ NoItems(detection_results[1]))
    => /\ run.stats /= None
       /\ ~run.stats[1].raised
       /\ run.stats[1].msgs = EmptyStatistics

C6_Witness ==
    /\ run.kind = "run"
    /\ detection_results = Some([boxes |-> Some(<<>>)])
    /\ run.stats /= None
    /\ run.stats[1].msgs = EmptyStatistics

-----------------------------------------------------------------------------
(* Properties of the detection processor pipeline (SpecProc) *)

ZeroRaw == RawOf("boxes", <<>>)
AbsentRaw == { RawOf("empty", <<>>), RawOf("noboxes", <<>>) }

\* run_inference returned a detection result
Returned == /\ ri /= None
            /\ ri[1].value /= None

detection_result == ri[1].value[1]

\* C3: when the model returns a container with zero predictions,
\* run_inference returns a detection result whose four sequences are empty,
\* and shows no error, whatever debug_mode is.
C3_ZeroPredictionsIsSuccess ==
    (ri /= None /\ raw = ZeroRaw)
    => /\ ri[1].value /= None
       /\ ri[1].value[1].boxes = <<>>
       /\ ri[1].value[1].scores = <<>>
       /\ ri[1].value[1].class_ids = <<>>
       /\ ri[1].value[1].class_names = <<>>
       /\ OfLevel(ri[1].msgs, "error") = <<>>

\* C4: what the pipeline reports for zero predictions (returned value and
\* messages shown) differs from what it reports when the model yields no
\* result container (an empty list, or a result without boxes): for
\* run_inference under every debug mode, and for detect_objects followed by
\* the statistics tab.
C4_NoResultDistinctFromZero ==
    /\ (ri /= None /\ raw = ZeroRaw)
       => \A a \in AbsentRaw, d \in BOOLEAN, t \in ElapsedValues :
            run_inference(a, d, t) /= ri[1]
    /\ (det /= None /\ stt /= None /\ raw = ZeroRaw)
       => \A a \in AbsentRaw :
            LET absent == detect_objects(Some("yolov8n.pt"), a)
            IN  << absent.value, absent.msgs, display_statistics_tab(absent.value) >>
                /= << det[1].value, det[1].msgs, stt[1] >>

C4_Witness ==
    /\ raw = ZeroRaw
    /\ debug_mode
    /\ ri /= None
    /\ ri[1].value = None
    /\ stt /= None

\* C5: none of the three statistics routines raises on a detection result
\* that has zero items.
C5_StatisticsNeverRaiseOnEmpty ==
    /\ (rm /= None /\ Returned /\ detection_result.boxes = <<>>) => ~rm[1].raised
    /\ (di /= None /\ Returned /\ detection_result.boxes = <<>>) => ~di[1].raised
    /\ (stt /= None /\ det[1].value /= None /\ NoItems(det[1].value[1]))
       => ~stt[1].raised

\* the total of the per-class counts a display shows
ShownClassTotal(msgs) ==
    LET lines == SelectSeq(msgs, LAMBDA m : m.key = "class_count")
    IN  SeqSum([ i \in DOMAIN lines |-> lines[i].num ])

\* C7: for a non-empty detection result, the per-class counts the statistics
\* tab and the results display build and show sum to the number of items.
C7_PerClassCountsSumToCount ==
    /\ (stt /= None /\ ~stt[1].raised /\ det[1].value /= None
          /\ ~NoItems(det[1].value[1]))
       => ShownClassTotal(stt[1].msgs) = Len(det[1].value[1].boxes[1])
    /\ (rm /= None /\ Returned /\ detection_result.boxes /= <<>>)
       => /\ ~rm[1].raised
          /\ ShownClassTotal(rm[1].msgs) = Len(detection_result.boxes)

C7_Witness ==
    /\ Len(raw.preds) = 2
    /\ raw.preds[1].cls = 2
    /\ raw.preds[2].cls = 2
    /\ stt /= None
    /\ ~stt[1].raised
    /\ ShownClassTotal(stt[1].msgs) = 2
    /\ rm /= None
    /\ ShownClassTotal(rm[1].msgs) = 2

\* C8: raw predictions with a confidence outside [0, 1] are rejected:
\* run_inference shows an error and returns no detection result.
C8_OutOfRangeConfidenceRejected ==
    (ri /= None /\ \E i \in DOMAIN raw.preds :
                     raw.preds[i].conf < 0 \/ raw.preds[i].conf > 1000)
    => /\ ri[1].value = None
       /\ OfLevel(ri[1].msgs, "error") /= <<>>

\* C9: raw predictions with a class_id that is no index of the class table
\* (negative, or the table's length and above) yield no detection result.
C9_InvalidClassIdRejected ==
    (ri /= None /\ \E i \in DOMAIN raw.preds :
                     raw.preds[i].cls < 0 \/ raw.preds[i].cls >= Len(get_coco_classes))
    => ri[1].value = None

\* C10: in a returned detection result the four sequences have one length
\* and the model's order, and each class name is the class table's entry at
\* its class id (an index from 0 below the table's length).
C10_ResultSequencesAligned ==
    Returned
    => /\ Len(detection_result.boxes) = Len(raw.preds)
       /\ Len(detection_result.scores) = Len(raw.preds)
       /\ Len(detection_result.class_ids) = Len(raw.preds)
       /\ Len(detection_result.class_names) = Len(raw.preds)
       /\ \A i \in DOMAIN raw.preds :
            /\ detection_result.boxes[i] = raw.preds[i].box
            /\ detection_result.scores[i] = raw.preds[i].conf
            /\ detection_result.class_ids[i] = raw.preds[i].cls
            /\ detection_result.class_ids[i] \in 0..(Len(get_coco_classes) - 1)
            /\ detection_result.class_names[i]
                 = get_coco_classes[detection_result.class_ids[i] + 1]

-----------------------------------------------------------------------------
(* The order of the per-class counts *)

\* the per-class count lines a display shows, in the order shown
ShownClassCounts(msgs) == SelectSeq(msgs, LAMBDA m : m.key = "class_count")

\* descending count, and ascending class name among equal counts
CountDescThenName(lines) ==
    \A i \in 1..(Len(lines) - 1) :
        \/ lines[i].num > lines[i + 1].num
        \/ /\ lines[i].num = lines[i + 1].num
           /\ NameRank(lines[i].name) < NameRank(lines[i + 1].name)

\* C11: every display that lists the per-class counts (the statistics tab,
\* the results display, the debug statistics) lists them in descending order
\* of count, equal counts in ascending order of class name, whatever the
\* order in which the classes were first detected.
C11_ClassCountsOrdered ==
    /\ (stt /= None /\ ~stt[1].raised) => CountDescThenName(ShownClassCounts(stt[1].msgs))
    /\ (rm /= None /\ ~rm[1].raised) => CountDescThenName(ShownClassCounts(rm[1].msgs))
    /\ (di /= None /\ ~di[1].raised) => CountDescThenName(ShownClassCounts(di[1].msgs))

-----------------------------------------------------------------------------
(* The resource cache and the stored result (Spec) *)

\* C12: the model constructor runs at most once for the model identifier,
\* over all script runs, sessions and manager instances: it runs only in a
\* run that finds the resource cache without an entry, that run leaves an
\* entry, an entry never changes, and a load that finds an entry returns
\* the cached value without running the constructor.  (run changes in
\* every step that is a script run with a load.)
C12_ConstructorAtMostOnce ==
    [][ /\ cache_resource /= None => cache_resource' = cache_resource
        /\ run' /= run
           => /\ run'.constructed => (cache_resource = None /\ cache_resource' /= None)
              /\ (cache_resource /= None /\ run'.load_called)
                 => /\ ~run'.constructed
                    /\ run'.load_ok = (cache_resource[1] /= None) ]_vars

\* a later session's detection run that got the model from the cache
C12_Witness ==
    /\ run.load_called
    /\ ~run.constructed
    /\ run.load_ok
    /\ run.invoked
    /\ cache_resource = Some(Some("yolov8n.pt"))

\* what detect_objects returns for the model output r: the first result
StoredFor(r) ==
    IF r.kind = "raise" \/ ModelResults(r) = <<>> THEN None
    ELSE Some(ModelResults(r)[1])

\* C13: after any sequence of script runs the stored detection result is
\* absent or exactly the output of the most recent model call: a run that
\* calls the model stores that call's output, whole, and any other step
\* leaves the stored result as it was or removes it.
C13_StoredIsLatestOutput ==
    [][ IF run'.invoked
        THEN detection_results' = StoredFor(run'.model_output[1])
        ELSE detection_results' \in {None, detection_results} ]_vars

\* a stored result with items, just written by the run that called the model
C13_Witness ==
    /\ run.invoked
    /\ detection_results /= None
    /\ detection_results[1].boxes /= None
    /\ Len(detection_results[1].boxes[1]) = MaxRunPreds
    /\ detection_results = StoredFor(run.model_output[1])

-----------------------------------------------------------------------------
(* Failures at the boundaries to the outside *)

\* the image input section asked for a remote image and the request failed
FetchFailed(f) == f /= None /\ f[1].requested /\ f[1].outcome /= "ok"

\* C14: when the request for a remote image (a URL or a sample) times out,
\* is answered with a non-success status or with content that is no image,
\* the loader returns no image and shows an error without raising, and the
\* session's stored image and detection result stay as they were.
C14_FailedFetchLeavesSession ==
    [][ (fetch' /= fetch /\ FetchFailed(fetch')
           /\ fetch'[1].outcome \in {"timeout", "http_error", "not_image"})
        => /\ fetch'[1].value = None
           /\ ~fetch'[1].raised
           /\ OfLevel(fetch'[1].msgs, "error") /= <<>>
           /\ uploaded_image' = uploaded_image
           /\ detection_results' = detection_results ]_vars

\* a fetch answered with something that is no image, in a session that holds
\* an image and a detection result
C14_Witness ==
    /\ FetchFailed(fetch)
    /\ fetch[1].outcome = "not_image"
    /\ fetch[1].value = None
    /\ uploaded_image /= None
    /\ detection_results /= None

HasMsg(msgs, level, key) ==
    \E i \in DOMAIN msgs : msgs[i].level = level /\ msgs[i].key = key

-----------------------------------------------------------------------------
(* Properties of the renderer and of repeated normalization (SpecVis) *)

\* the renderer returned an image for the detection result of run_inference
Rendered == /\ vis /= None
            /\ vis[1].out.value /= None

\* the drawing operations the renderer added to the image
rendered_ops == vis[1].out.value[1].ops

\* the rectangles drawn as outlines, and the label texts, in drawing order
OutlinedRectangles(ops) ==
    SelectSeq(ops, LAMBDA o : o.op = "rectangle" /\ o.outline /= "")

LabelTexts(ops) == SelectSeq(ops, LAMBDA o : o.op = "text")

\* C16: create_visualization leaves the image it is given as it was, whether
\* it succeeds or fails; on success it returns another image, of the same
\* picture, on which each item of the detection result has exactly one
\* rectangle at its box.
C16_SourceImageUntouched ==
    vis /= None
    => /\ vis[1].out.source = vis[1].image
       /\ Rendered
          => /\ vis[1].out.value[1].id = vis[1].image.id
             /\ Len(OutlinedRectangles(rendered_ops)) = Len(detection_result.boxes)
             /\ \A i \in DOMAIN detection_result.boxes :
                  /\ OutlinedRectangles(rendered_ops)[i].xy = detection_result.boxes[i]
                  /\ Cardinality({ k \in DOMAIN rendered_ops :
                                     /\ rendered_ops[k].op = "rectangle"
                                     /\ rendered_ops[k].xy = detection_result.boxes[i] })
                       = Cardinality({ j \in DOMAIN detection_result.boxes :
                                         detection_result.boxes[j] = detection_result.boxes[i] })

\* two items with different boxes drawn on a copy
C16_Witness ==
    /\ Rendered
    /\ Len(detection_result.boxes) = 2
    /\ detection_result.boxes[1] /= detection_result.boxes[2]
    /\ Len(OutlinedRectangles(rendered_ops)) = 2
    /\ vis[1].out.value[1] /= vis[1].image
    /\ vis[1].out.source = vis[1].image

\* C17: the colour of the item at position i (from 0) is the palette entry
\* i mod the palette's length, for its rectangle and its label background:
\* the position alone decides it, not the class, the box or the confidence.
C17_ColorByPosition ==
    Rendered
    => \A i \in DOMAIN detection_result.boxes :
         LET entry == colors[((i - 1) % Len(colors)) + 1]
         IN  /\ rendered_ops[3 * i - 2].outline = entry
             /\ rendered_ops[3 * i - 1].fill = entry

\* an image with more items than colours: the palette has wrapped around
C17_Witness ==
    /\ Rendered
    /\ Len(detection_result.boxes) > Len(colors)
    /\ rendered_ops[3 * (Len(colors) + 1) - 2].outline = colors[1]
    /\ detection_result.class_ids[1] /= detection_result.class_ids[Len(colors) + 2]

\* C18: when the preferred font cannot be loaded the renderer uses the
\* default font and still returns the annotated image, every item drawn
\* with its rectangle and its label.
C18_FontFallback ==
    (vis /= None /\ ~vis[1].truetype_ok /\ Returned)
    => /\ Rendered
       /\ Len(OutlinedRectangles(rendered_ops)) = Len(detection_result.boxes)
       /\ Len(LabelTexts(rendered_ops)) = Len(detection_result.boxes)
       /\ \A k \in DOMAIN LabelTexts(rendered_ops) :
            LabelTexts(rendered_ops)[k].font = "default"

C18_Witness ==
    /\ Rendered
    /\ ~vis[1].truetype_ok
    /\ Len(detection_result.boxes) = 2
    /\ Len(LabelTexts(rendered_ops)) = 2
    /\ LabelTexts(rendered_ops)[1].font = "default"

\* C19: the label of each item holds the item's class name and its
\* confidence written with exactly 3 decimal places.
C19_LabelThreeDecimals ==
    Rendered
    => /\ Len(LabelTexts(rendered_ops)) = Len(detection_result.boxes)
       /\ \A i \in DOMAIN LabelTexts(rendered_ops) :
            /\ LabelTexts(rendered_ops)[i].label.class_name = detection_result.class_names[i]
            /\ LabelTexts(rendered_ops)[i].label.decimals = 3
            /\ LabelTexts(rendered_ops)[i].label.digits = detection_result.scores[i]

-----------------------------------------------------------------------------
(* Reruns of one session (Spec) *)

\* C21: a detection run that starts with the session flag model_loaded set
\* (so that it does not load) is served by a manager that holds a model: it
\* calls the model and does not end with "model not loaded".
C21_LoadedFlagMeansModel ==
    (run.clicked /\ ~run.load_called)
    => /\ run.invoked
       /\ ~HasMsg(run.msgs, "error", "model_not_loaded")

\* C22: the detection result shown in the detection tab was computed from
\* the image currently stored as the session's uploaded image: a rerun
\* that stores a different image without running detection does not show
\* the result the preceding run computed from the earlier image.
C22_DisplayedResultOfCurrentImage ==
    [][ (/\ run.invoked
         /\ detection_results /= None
         /\ run.image_passed = uploaded_image
         /\ run' /= run
         /\ ~run'.clicked
         /\ uploaded_image' /= uploaded_image)
        => run'.displayed = None ]_vars

\* C23: the "detection complete" success message of a detection run is
\* shown only if that run stored a detection result: a run in which
\* detect_objects returned None shows no success message.
C23_SuccessOnlyWithResult ==
    HasMsg(run.msgs, "success", "detection_complete") => detection_results /= None

\* C24: a click on "run detection", in a process whose resource cache holds
\* the model, makes exactly one model call in that script run, and a script
\* run in which the button was not clicked makes none.
C24_OneClickOneInvocation ==
    /\ (run.kind = "run" /\ ~run.clicked) => ~run.invoked
    /\ (run.clicked /\ cache_resource = Some(Some("yolov8n.pt"))) => run.invoked

-----------------------------------------------------------------------------
(* The order of the calls of a remote loader (Spec) *)

\* the positions of a call in the calls a loader made
CallsOf(calls, name) == { k \in DOMAIN calls : calls[k].call = name }

\* C25: the request of the URL loader and of the sample loader carries a
\* bounded timeout, and the response is decoded only after its status has
\* been checked and found successful: a response with a non-success status
\* never reaches the decoder.
C25_StatusCheckedBeforeDecode ==
    (fetch /= None /\ fetch[1].requested)
    => LET calls == fetch[1].calls
       IN  /\ calls[1].call = "requests.get"
           /\ calls[1].timeout = RequestTimeout
           /\ calls[1].timeout > 0
           /\ \A k \in CallsOf(calls, "Image.open") :
                /\ k > 1
                /\ calls[k - 1].call = "raise_for_status"
                /\ fetch[1].outcome \notin {"http_error", "timeout", "connection_error"}
           /\ fetch[1].outcome = "http_error" => CallsOf(calls, "Image.open") = {}
           /\ fetch[1].value /= None => CallsOf(calls, "Image.open") /= {}

\* a response with a non-success status, for either loader: the status check
\* was the last call
C25_Witness ==
    /\ fetch /= None
    /\ fetch[1].requested
    /\ fetch[1].outcome = "http_error"
    /\ Len(fetch[1].calls) = 2
    /\ fetch[1].calls[2].call = "raise_for_status"
    /\ fetch[1].value = None

-----------------------------------------------------------------------------
(* The timing field and the per-class mapping (SpecProc) *)

\* C26: in every detection result run_inference returns, inference_time is
\* present exactly when the call was made with debug_mode set, and it is
\* then the non-negative number of milliseconds measured around the model
\* call; without debug_mode it is absent.
C26_InferenceTimeIffDebug ==
    Returned
    => /\ (detection_result.inference_time /= None) = debug_mode
       /\ debug_mode
          => /\ detection_result.inference_time = Some(elapsed)
             /\ detection_result.inference_time[1] >= 0

\* a result returned in debug mode that holds a measured time
C26_Witness ==
    /\ Returned
    /\ debug_mode
    /\ elapsed > 0
    /\ detection_result.inference_time = Some(elapsed)
    /\ Len(detection_result.boxes) > 0

\* the lines are a mapping from the class names that occur to their numbers
\* of occurrences: one line per name, none for a name that does not occur
GroupedByName(lines, class_names) ==
    /\ \A i, j \in DOMAIN lines : i /= j => lines[i].name /= lines[j].name
    /\ { lines[i].name : i \in DOMAIN lines }
         = { class_names[k] : k \in DOMAIN class_names }
    /\ \A i \in DOMAIN lines :
         lines[i].num = Cardinality({ k \in DOMAIN class_names :
                                        class_names[k] = lines[i].name })

\* C27: the per-class counts are grouped by resolved class name, not by
\* class id: items whose different class ids resolve to one name are counted
\* in one entry, and the entries are exactly the names that occur in the
\* items, none with count zero.
C27_CountsKeyedByName ==
    /\ (rm /= None /\ ~rm[1].raised /\ Returned)
       => GroupedByName(ShownClassCounts(rm[1].msgs), detection_result.class_names)
    /\ (stt /= None /\ ~stt[1].raised /\ det[1].value /= None
          /\ ~NoItems(det[1].value[1]))
       => GroupedByName(ShownClassCounts(stt[1].msgs),
                        [ i \in DOMAIN det[1].value[1].boxes[1] |->
                            names(det[1].value[1].boxes[1][i].cls) ])

\* two items of different class ids and one name, shown as one entry
C27_Witness ==
    /\ rm /= None
    /\ ~rm[1].raised
    /\ Returned
    /\ Len(detection_result.class_ids) = 2
    /\ detection_result.class_ids[1] /= detection_result.class_ids[2]
    /\ detection_result.class_names[1] = detection_result.class_names[2]
    /\ Len(ShownClassCounts(rm[1].msgs)) = 1
    /\ ShownClassCounts(rm[1].msgs)[1].num = 2

-----------------------------------------------------------------------------
(* The thresholds handed to the model (Spec) *)

\* C28: the confidence and NMS thresholds handed to the model in a detection
\* run are the values the sidebar stored in the session in the same script
\* run, unchanged and within [0, 1] (hundredths: 0..100); the run reads no
\* unset and no stale threshold.
C28_ThresholdsPassedThrough ==
    run.invoked
    => /\ run.conf_passed /= None
       /\ run.nms_passed /= None
       /\ run.conf_passed = confidence_threshold
       /\ run.nms_passed = nms_threshold
       /\ run.conf_passed[1] \in 0..100
       /\ run.nms_passed[1] \in 0..100

\* a model call with sliders moved away from their defaults in the same run
C28_Witness ==
    /\ run.invoked
    /\ run.conf_passed = Some(100)
    /\ run.nms_passed = Some(DefaultNms)
    /\ confidence_threshold = Some(100)
    /\ nms_threshold = Some(DefaultNms)

-----------------------------------------------------------------------------
(* The three counts agree (SpecProc) *)

\* the mapping from class name to count that the lines of a display show
ShownMapping(msgs) ==
    { <<ShownClassCounts(msgs)[i].name, ShownClassCounts(msgs)[i].num>> :
        i \in DOMAIN ShownClassCounts(msgs) }

-----------------------------------------------------------------------------
(* install_japanese_fonts.py: SpecFonts *)

\* what a subprocess.run(..., check=True) does: it returns, the command
\* exits with a failure status (CalledProcessError), or the program is not
\* there (FileNotFoundError)
CmdOutcomes == {"ok", "failed", "missing"}

\* the platform the script runs on: platform.system(), the distribution
\* file that exists, what the commands do, whether matplotlib can be
\* imported and whether it lists a Japanese font before and after
FontEnvs ==
    [system : {"Linux", "Darwin", "Windows", "FreeBSD"},
     distro : {"debian", "redhat", "other"},
     update : CmdOutcomes, install : CmdOutcomes, fc_cache : CmdOutcomes,
     matplotlib : BOOLEAN, fonts_before : BOOLEAN, fonts_after : BOOLEAN]

Printed(key) == Msg("print", key, "", 0)

\* the result of a function of the script: its return value, or the
\* exception that left it, and what it printed
Ret(value, msgs) == [value |-> Some(value), raised |-> FALSE, msgs |-> msgs]
Propagates(msgs) == [value |-> None, raised |-> TRUE, msgs |-> msgs]

\* check_japanese_fonts(), found being whether a Japanese font is listed
check_japanese_fonts(env, found) ==
    IF ~env.matplotlib
    THEN Ret(FALSE, << Printed("checking_fonts"), Printed("matplotlib_missing") >>)
    ELSE IF found
    THEN Ret(TRUE, << Printed("checking_fonts"), Printed("fonts_found") >>)
    ELSE Ret(FALSE, << Printed("checking_fonts"), Printed("fonts_not_found") >>)

\* the update of the font cache at the end of the Linux installer
UpdateFontCache(env, printed) ==
    CASE env.fc_cache = "ok"     -> Ret(TRUE, printed \o << Printed("font_cache_updated") >>)
      [] env.fc_cache = "failed" -> Ret(TRUE, printed \o << Printed("font_cache_failed") >>)
      [] OTHER                   -> Propagates(printed)

\* install_japanese_fonts_linux()
install_japanese_fonts_linux(env) ==
    LET start == << Printed("linux_installing") >>
        failed == Ret(FALSE, start \o << Printed("package_install_failed") >>)
    IN  CASE env.distro = "debian" ->
               ( CASE env.update = "failed"   -> failed
                   [] env.update = "missing"  -> Propagates(start)
                   [] env.install = "failed"  -> failed
                   [] env.install = "missing" -> Propagates(start)
                   [] OTHER -> UpdateFontCache(env, start \o << Printed("debian_installed") >>) )
          [] env.distro = "redhat" ->
               ( CASE env.install = "failed"  -> failed
                   [] env.install = "missing" -> Propagates(start)
                   [] OTHER -> UpdateFontCache(env, start \o << Printed("redhat_installed") >>) )
          [] OTHER ->
               Ret(FALSE, start \o << Printed("unsupported_distribution"),
                                      Printed("install_manually") >>)

\* install_japanese_fonts_macos() and install_japanese_fonts_windows()
install_japanese_fonts_builtin(key) ==
    Ret(TRUE, << Printed(key), Printed("fonts_built_in"), Printed("automatic_setup") >>)

\* the installer of the detected platform (none for an unknown platform)
PlatformInstaller(env) ==
    CASE env.system = "Linux"   -> install_japanese_fonts_linux(env)
      [] env.system = "Darwin"  -> install_japanese_fonts_builtin("macos_installing")
      [] env.system = "Windows" -> install_japanese_fonts_builtin("windows_installing")
      [] OTHER                  -> Ret(FALSE, << Printed("unsupported_os") >>)

\* install_japanese_fonts(): the platform installer's return value is dropped
install_japanese_fonts(env) ==
    LET start == << Printed("install_start") >>
        inst  == PlatformInstaller(env)
    IN  IF env.system \notin {"Linux", "Darwin", "Windows"}
        THEN Ret(FALSE, start \o inst.msgs)
        ELSE IF inst.raised THEN Propagates(start \o inst.msgs)
        ELSE Ret(TRUE, start \o inst.msgs)

\* main() of the script.  The record tells what main printed, whether an
\* exception left it, and what the functions it called returned.
fonts_main(env) ==
    LET banner == << Printed("installer_banner") >>
        first  == check_japanese_fonts(env, env.fonts_before)
        inst   == install_japanese_fonts(env)
        second == check_japanese_fonts(env, env.fonts_after)
        none   == [installer |-> None, installed |-> None]
    IN  IF first.value[1]
        THEN none @@ [raised |-> FALSE,
                      msgs |-> banner \o first.msgs \o << Printed("fonts_already_available") >>]
        ELSE
        LET called == [installer |-> IF env.system \in {"Linux", "Darwin", "Windows"}
                                     THEN PlatformInstaller(env).value ELSE None,
                       installed |-> inst.value]
        IN  IF inst.raised
            THEN called @@ [raised |-> TRUE, msgs |-> banner \o first.msgs \o inst.msgs]
            ELSE IF ~inst.value[1]
            THEN called @@ [raised |-> FALSE,
                            msgs |-> banner \o first.msgs \o inst.msgs
                                     \o << Printed("font_install_failed") >>]
            ELSE called @@
                 [raised |-> FALSE,
                  msgs |-> banner \o first.msgs \o inst.msgs
                           \o << Printed("updating_font_cache") >> \o second.msgs
                           \o (IF second.value[1]
                               THEN << Printed("fonts_installed"), Printed("restart_application") >>
                               ELSE << Printed("fonts_not_installed") >>)]

\* the script is started on a platform drawn from FontEnvs
InitFonts ==
    /\ SessionStart
    /\ cache_resource = None
    /\ run = IdleRun
    /\ raw = RawOf("empty", <<>>)
    /\ debug_mode = FALSE
    /\ elapsed = 0
    /\ ri = None
    /\ rm = None
    /\ di = None
    /\ det = None
    /\ stt = None
    /\ fetch = None
    /\ ri2 = None
    /\ vis = None
    /\ font_env \in { Some(e) : e \in FontEnvs }
    /\ font_run = None

\* python install_japanese_fonts.py
RunFontInstaller ==
    /\ font_env /= None
    /\ font_run = None
    /\ font_run' = Some(fonts_main(font_env[1]))
    /\ UNCHANGED <<sessVars, procVars, ioVars, font_env>>

NextFonts == RunFontInstaller

SpecFonts == InitFonts /\ [][NextFonts]_vars

\* C30: install_japanese_fonts returns True only if the installer of the
\* detected platform reported success: when the Linux installer returns
\* False, install_japanese_fonts returns False and main reports that the
\* font installation failed.
C30_InstallerFailureReported ==
    (font_run /= None /\ font_run[1].installed /= None)
    => /\ font_run[1].installed = Some(TRUE) => font_run[1].installer = Some(TRUE)
       /\ (font_env[1].system = "Linux" /\ font_run[1].installer = Some(FALSE))
          => /\ font_run[1].installed = Some(FALSE)
             /\ HasMsg(font_run[1].msgs, "print", "font_install_failed")

====
